---- MODULE Spec2Model ----
(***************************************************************************)
(* Model of station_core.py: the address -> walkable stations pipeline.   *)
(*                                                                         *)
(* A Python str is a sequence of Unicode code points (naturals), so that   *)
(* substring replacement, the regular expressions and sorted() are         *)
(* computed on the same characters as the code.  Python's None is the      *)
(* value None below.  A float distance is an integer number of tenths of   *)
(* a metre (see the aggregation part).                                     *)
(***************************************************************************)
EXTENDS Integers, Sequences, FiniteSets, TLC

\* ------------------------------------------------------------------------
\* Bounds of the model (not program constants)
\* ------------------------------------------------------------------------
MaxPieces == 2
MaxRecords == 3
MaxLocs == 3

\* Python's None, a value no str equals.
None == << -1 >>

\* ------------------------------------------------------------------------
\* Characters the code names literally
\* ------------------------------------------------------------------------
CH_SPACE == 32
CH_HYPHEN == 45
CH_SHI == 24066
CH_SEN == 32218
CH_EI == 21942
CH_POSTMARK == 12306
STR_SUBWAY == <<22320, 19979, 37444>>
STR_TOEI == <<37117, 21942>>
STR_METRO == <<26481, 20140, 12513, 12488, 12525>>
STR_CHOME == <<19969, 30446>>
KANJI_NUMERALS == {19968, 20108, 19977, 22235, 20116, 20845, 19971, 20843, 20061, 21313, 12295, 38646}
ASCII_DIGITS == 48..57

\* str.isspace(): what str.strip() removes and what \s matches in a str pattern.
WhiteSpace ==
  {9, 10, 11, 12, 13, 28, 29, 30, 31, 32, 133, 160, 5760, 8232, 8233, 8239, 8287, 12288}
    \cup (8192..8202)

\* _ZEN2HAN: full-width digits to ASCII digits, hyphen-like glyphs to "-".
ZEN2HAN(c) ==
  IF c \in 65296..65305 THEN c - 65296 + 48
  ELSE IF c \in {65293, 12540, 8722, 8208, 45, 8211, 8212, 8213} THEN CH_HYPHEN
  ELSE c

\* ------------------------------------------------------------------------
\* str primitives
\* ------------------------------------------------------------------------
Translate(s) == [i \in 1..Len(s) |-> ZEN2HAN(s[i])]

RECURSIVE LStrip(_)
LStrip(s) == IF s # <<>> /\ Head(s) \in WhiteSpace THEN LStrip(Tail(s)) ELSE s

RECURSIVE RStrip(_)
RStrip(s) ==
  IF s # <<>> /\ s[Len(s)] \in WhiteSpace THEN RStrip(SubSeq(s, 1, Len(s) - 1)) ELSE s

\* str.strip()
Strip(s) == RStrip(LStrip(s))

\* s.startswith(p, i) with 1-based i
MatchAt(s, p, i) ==
  /\ i >= 1
  /\ i + Len(p) - 1 <= Len(s)
  /\ \A k \in 1..Len(p) : s[i + k - 1] = p[k]

\* p in s
Contains(s, p) == \E i \in 1..(Len(s) + 1) : MatchAt(s, p, i)

\* str.replace(src, dst): the non-overlapping occurrences, left to right.
RECURSIVE StrReplace(_, _, _)
StrReplace(s, src, dst) ==
  IF s = <<>> THEN <<>>
  ELSE IF MatchAt(s, src, 1)
    THEN dst \o StrReplace(SubSeq(s, Len(src) + 1, Len(s)), src, dst)
    ELSE <<Head(s)>> \o StrReplace(Tail(s), src, dst)

\* re.sub(r"\s+", " ", s)
RECURSIVE CollapseSpaces(_)
CollapseSpaces(s) ==
  IF s = <<>> THEN <<>>
  ELSE IF Head(s) \in WhiteSpace
    THEN <<CH_SPACE>> \o CollapseSpaces(LStrip(s))
    ELSE <<Head(s)>> \o CollapseSpaces(Tail(s))

\* dict.get(s, s) on a table of <<key, value>> pairs
RECURSIVE DictGet(_, _, _)
DictGet(table, key, default) ==
  IF table = <<>> THEN default
  ELSE IF Head(table)[1] = key THEN Head(table)[2]
  ELSE DictGet(Tail(table), key, default)

DictHas(table, key) == \E i \in 1..Len(table) : table[i][1] = key

\* ------------------------------------------------------------------------
\* Rule tables of the line-name normalizer (in table order)
\* ------------------------------------------------------------------------
COMMON_REPLACES ==
  <<
    << <<65322, 65330>>,
       <<74, 82>> >>,  \* ＪＲ -> JR
    << <<65322, 65330, 26481, 26085, 26412>>,
       <<74, 82, 26481, 26085, 26412>> >>,  \* ＪＲ東日本 -> JR東日本
    << <<65322, 65330, 35199, 26085, 26412>>,
       <<74, 82, 35199, 26085, 26412>> >>,  \* ＪＲ西日本 -> JR西日本
    << <<65322, 65330, 26481, 28023>>,
       <<74, 82, 26481, 28023>> >>,  \* ＪＲ東海 -> JR東海
    << <<65322, 65330, 20061, 24030>>,
       <<74, 82, 20061, 24030>> >>,  \* ＪＲ九州 -> JR九州
    << <<65322, 65330, 21271, 28023, 36947>>,
       <<74, 82, 21271, 28023, 36947>> >>,  \* ＪＲ北海道 -> JR北海道
    << <<65322, 65330, 22235, 22269>>,
       <<74, 82, 22235, 22269>> >>,  \* ＪＲ四国 -> JR四国
    << <<26481, 20140, 22320, 19979, 37444>>,
       <<26481, 20140, 12513, 12488, 12525>> >>,  \* 東京地下鉄 -> 東京メトロ
    << <<37117, 21942, 22320, 19979, 37444>>,
       <<37117, 21942>> >>,  \* 都営地下鉄 -> 都営
    << <<26481, 20140, 37117, 20132, 36890, 23616>>,
       <<37117, 21942>> >>,  \* 東京都交通局 -> 都営
    << <<22823, 38442, 24066, 39640, 36895, 38651, 27671, 36556, 36947>>,
       <<22823, 38442, 12513, 12488, 12525>> >>,  \* 大阪市高速電気軌道 -> 大阪メトロ
    << <<21517, 21476, 23627, 37444, 36947>>,
       <<21517, 37444>> >>,  \* 名古屋鉄道 -> 名鉄
    << <<36817, 30079, 26085, 26412, 37444, 36947>>,
       <<36817, 37444>> >>,  \* 近畿日本鉄道 -> 近鉄
    << <<20140, 27996, 24613, 34892, 38651, 37444>>,
       <<20140, 24613>> >>,  \* 京浜急行電鉄 -> 京急
    << <<23567, 30000, 24613, 38651, 37444>>,
       <<23567, 30000, 24613>> >>,  \* 小田急電鉄 -> 小田急
    << <<26481, 27494, 37444, 36947>>,
       <<26481, 27494>> >>,  \* 東武鉄道 -> 東武
    << <<35199, 27494, 37444, 36947>>,
       <<35199, 27494>> >>,  \* 西武鉄道 -> 西武
    << <<20140, 29579, 38651, 37444>>,
       <<20140, 29579>> >>,  \* 京王電鉄 -> 京王
    << <<30456, 27169, 37444, 36947>>,
       <<30456, 37444>> >>,  \* 相模鉄道 -> 相鉄
    << <<26481, 20140, 24613, 34892, 38651, 37444>>,
       <<26481, 24613>> >>,  \* 東京急行電鉄 -> 東急
    << <<26481, 24613, 38651, 37444>>,
       <<26481, 24613>> >>,  \* 東急電鉄 -> 東急
    << <<20140, 25104, 38651, 37444>>,
       <<20140, 25104>> >>,  \* 京成電鉄 -> 京成
    << <<21335, 28023, 38651, 27671, 37444, 36947>>,
       <<21335, 28023>> >>,  \* 南海電気鉄道 -> 南海
    << <<38442, 24613, 38651, 37444>>,
       <<38442, 24613>> >>,  \* 阪急電鉄 -> 阪急
    << <<38442, 31070, 38651, 27671, 37444, 36947>>,
       <<38442, 31070>> >>,  \* 阪神電気鉄道 -> 阪神
    << <<35199, 26085, 26412, 37444, 36947>>,
       <<35199, 37444>> >>,  \* 西日本鉄道 -> 西鉄
    << <<22823, 38442, 39640, 36895, 37444, 36947>>,
       <<22823, 38442, 12514, 12494, 12524, 12540, 12523>> >>  \* 大阪高速鉄道 -> 大阪モノレール
  >>

CITY_SUBWAY_PREFIX ==
  <<
    << <<26413, 24140, 24066>>,
       <<22320, 19979, 37444>> >>,  \* 札幌市 -> 地下鉄
    << <<20185, 21488, 24066>>,
       <<22320, 19979, 37444>> >>,  \* 仙台市 -> 地下鉄
    << <<27178, 27996, 24066>>,
       <<22320, 19979, 37444>> >>,  \* 横浜市 -> 地下鉄
    << <<21517, 21476, 23627, 24066>>,
       <<22320, 19979, 37444>> >>,  \* 名古屋市 -> 地下鉄
    << <<20140, 37117, 24066>>,
       <<22320, 19979, 37444>> >>,  \* 京都市 -> 地下鉄
    << <<31070, 25144, 24066>>,
       <<22320, 19979, 37444>> >>,  \* 神戸市 -> 地下鉄
    << <<31119, 23713, 24066>>,
       <<22320, 19979, 37444>> >>,  \* 福岡市 -> 地下鉄
    << <<22823, 38442, 24066>>,
       <<22823, 38442, 12513, 12488, 12525>> >>  \* 大阪市 -> 大阪メトロ
  >>

POPULAR_LINE_ALIASES ==
  <<
    << <<12426, 12435, 12363, 12356, 32218>>,
       <<12426, 12435, 12363, 12356, 32218>> >>,  \* りんかい線 -> りんかい線
    << <<26481, 20140, 33256, 28023, 39640, 36895, 37444, 36947, 12426, 12435, 12363, 12356, 32218>>,
       <<12426, 12435, 12363, 12356, 32218>> >>,  \* 東京臨海高速鉄道りんかい線 -> りんかい線
    << <<12422, 12426, 12363, 12418, 12417>>,
       <<12422, 12426, 12363, 12418, 12417>> >>,  \* ゆりかもめ -> ゆりかもめ
    << <<12422, 12426, 12363, 12418, 12417, 26481, 20140, 33256, 28023, 26032, 20132, 36890, 33256, 28023, 32218>>,
       <<12422, 12426, 12363, 12418, 12417>> >>,  \* ゆりかもめ東京臨海新交通臨海線 -> ゆりかもめ
    << <<26481, 20140, 33256, 28023, 26032, 20132, 36890, 33256, 28023, 32218>>,
       <<12422, 12426, 12363, 12418, 12417>> >>,  \* 東京臨海新交通臨海線 -> ゆりかもめ
    << <<26085, 26286, 37324, 12539, 33294, 20154, 12521, 12452, 12490, 12540>>,
       <<26085, 26286, 37324, 12539, 33294, 20154, 12521, 12452, 12490, 12540>> >>,  \* 日暮里・舎人ライナー -> 日暮里・舎人ライナー
    << <<26481, 20140, 12514, 12494, 12524, 12540, 12523>>,
       <<26481, 20140, 12514, 12494, 12524, 12540, 12523>> >>,  \* 東京モノレール -> 東京モノレール
    << <<22823, 38442, 12514, 12494, 12524, 12540, 12523>>,
       <<22823, 38442, 12514, 12494, 12524, 12540, 12523>> >>  \* 大阪モノレール -> 大阪モノレール
  >>

LINE_NAME_OVERRIDES ==
  <<
    << <<20185, 21488, 24066, 21335, 21271, 32218>>,
       <<22320, 19979, 37444, 21335, 21271, 32218>> >>,  \* 仙台市南北線 -> 地下鉄南北線
    << <<20185, 21488, 24066, 26481, 35199, 32218>>,
       <<22320, 19979, 37444, 26481, 35199, 32218>> >>,  \* 仙台市東西線 -> 地下鉄東西線
    << <<26481, 20140, 33256, 28023, 39640, 36895, 37444, 36947, 12426, 12435, 12363, 12356, 32218>>,
       <<12426, 12435, 12363, 12356, 32218>> >>,  \* 東京臨海高速鉄道りんかい線 -> りんかい線
    << <<12422, 12426, 12363, 12418, 12417, 26481, 20140, 33256, 28023, 26032, 20132, 36890, 33256, 28023, 32218>>,
       <<12422, 12426, 12363, 12418, 12417>> >>,  \* ゆりかもめ東京臨海新交通臨海線 -> ゆりかもめ
    << <<26481, 20140, 33256, 28023, 26032, 20132, 36890, 33256, 28023, 32218>>,
       <<12422, 12426, 12363, 12418, 12417>> >>  \* 東京臨海新交通臨海線 -> ゆりかもめ
  >>

\* ------------------------------------------------------------------------
\* normalize_text, normalize_line_name
\* ------------------------------------------------------------------------
normalize_text(s) == IF s = None THEN <<>> ELSE Translate(Strip(s))

\* for src, dst in COMMON_REPLACES.items(): s = s.replace(src, dst)
RECURSIVE ApplyReplaces(_, _)
ApplyReplaces(s, table) ==
  IF table = <<>> THEN s
  ELSE ApplyReplaces(StrReplace(s, Head(table)[1], Head(table)[2]), Tail(table))

\* re.match(r"^(?P<city>.+?市)(?P<rest>.+線)$", s): the end index of the
\* shortest city (at least one character, then 市) that leaves a rest of at
\* least one character and then 線 up to the end of s; 0 when no match.
CityLineMatch(s) ==
  LET ends == {i \in 2..(Len(s) - 2) : s[i] = CH_SHI}
  IN  IF Len(s) >= 4 /\ s[Len(s)] = CH_SEN /\ ends # {}
        THEN CHOOSE i \in ends : \A j \in ends : i <= j
        ELSE 0

FoldCitySubway(s) ==
  LET e == CityLineMatch(s)
      city == SubSeq(s, 1, e)
      rest == SubSeq(s, e + 1, Len(s))
  IN  IF e # 0 /\ ~Contains(s, STR_SUBWAY) /\ DictHas(CITY_SUBWAY_PREFIX, city)
        THEN DictGet(CITY_SUBWAY_PREFIX, city, <<>>) \o rest
        ELSE s

\* _TOEI_LINE_RE / _METRO_LINE_RE: ^(prefix)(.+線)$, re-emitted as prefix + group 2
TidyPrefix(s, prefix) ==
  IF /\ MatchAt(s, prefix, 1)
     /\ Len(s) >= Len(prefix) + 2
     /\ s[Len(s)] = CH_SEN
    THEN prefix \o SubSeq(s, Len(prefix) + 1, Len(s))
    ELSE s

\* _SUBWAY_LINE_RE: ^(?P<prefix>.+地下鉄)(?P<rest>.+線)$, the greedy prefix
\* ends at the last 地下鉄 that leaves a rest; re-emitted as prefix + rest.
TidySubway(s) ==
  LET ends == {i \in 4..(Len(s) - 2) : MatchAt(s, STR_SUBWAY, i - 2)}
      e == CHOOSE i \in ends : \A j \in ends : i >= j
  IN  IF Len(s) >= 6 /\ s[Len(s)] = CH_SEN /\ ends # {}
        THEN SubSeq(s, 1, e) \o SubSeq(s, e + 1, Len(s))
        ELSE s

\* _CITY_SUBWAY_STRIP_RE: ^(?P<city>.+?市)(?:営)?地下鉄\s*(?P<rest>.+)$
\* For a city ending at i: the index where rest starts, 0 when no match there.
StripRestAt(s, i) ==
  LET a == IF i + 1 <= Len(s) /\ s[i + 1] = CH_EI /\ MatchAt(s, STR_SUBWAY, i + 2)
             THEN i + 2
             ELSE IF MatchAt(s, STR_SUBWAY, i + 1) THEN i + 1 ELSE 0
      t == a + 3
      afterWs == Len(s) - Len(LStrip(SubSeq(s, t, Len(s)))) + 1
  IN  IF a = 0 THEN 0
      ELSE IF afterWs <= Len(s) THEN afterWs
      ELSE IF t <= Len(s) THEN Len(s)
      ELSE 0

StripCitySubway(s) ==
  LET ends == {i \in 2..Len(s) : s[i] = CH_SHI /\ StripRestAt(s, i) # 0}
      e == CHOOSE i \in ends : \A j \in ends : i <= j
  IN  IF ends # {} THEN STR_SUBWAY \o SubSeq(s, StripRestAt(s, e), Len(s)) ELSE s

normalize_line_name(line) ==
  IF line = None \/ line = <<>> THEN <<>>
  ELSE
    LET s1 == normalize_text(line)
        s2 == Strip(CollapseSpaces(s1))
        s3 == ApplyReplaces(s2, COMMON_REPLACES)
        s4 == FoldCitySubway(s3)
        s5 == TidyPrefix(s4, STR_TOEI)
        s6 == TidyPrefix(s5, STR_METRO)
        s7 == TidySubway(s6)
        s8 == DictGet(POPULAR_LINE_ALIASES, s7, s7)
        s9 == DictGet(LINE_NAME_OVERRIDES, s8, s8)
    IN  StripCitySubway(s9)

\* ------------------------------------------------------------------------
\* Values of an external JSON record
\* ------------------------------------------------------------------------
\* A key the record does not carry (dict.get's default applies).
Absent == << -2 >>

\* str(v) of a field value: str(None) is the four characters "None".
PyStr(v) == IF v = None THEN <<78, 111, 110, 101>> ELSE v

\* Truthiness of a field value that is None or a str.
Truthy(v) == v # None /\ v # Absent /\ v # <<>>

\* _as_list(x): None -> [], a list as it is, a single object -> [object].
\* A JSON value is [t |-> "null"], [t |-> "list", items |-> seq] or
\* [t |-> "object", item |-> record].
_as_list(x) ==
  IF x.t = "null" THEN <<>>
  ELSE IF x.t = "list" THEN x.items
  ELSE <<x.item>>

\* ------------------------------------------------------------------------
\* extract_postal_code7 and the keyword variants of geocode_address_to_xy
\* ------------------------------------------------------------------------
IsDigit(s, i) == i >= 1 /\ i <= Len(s) /\ s[i] \in ASCII_DIGITS

DigitsAt(s, i, n) == \A k \in 0..(n - 1) : IsDigit(s, i + k)

\* index of the first non-whitespace character at or after i (Len(s)+1 if none)
RECURSIVE SkipSpaces(_, _)
SkipSpaces(s, i) ==
  IF i <= Len(s) /\ s[i] \in WhiteSpace THEN SkipSpaces(s, i + 1) ELSE i

SkipOpt(s, i, c) == IF i <= Len(s) /\ s[i] = c THEN i + 1 ELSE i

\* r"〒?\s*(\d{3})\s*[-]?\s*(\d{4})" tried at position i: the two digit groups
\* start at d1 and d2.  Every optional part is greedy and what follows it
\* cannot start with what it skipped, so the match at i is unique.
PostalD1(s, i) == SkipSpaces(s, SkipOpt(s, i, CH_POSTMARK))
PostalD2(s, i) == SkipSpaces(s, SkipOpt(s, SkipSpaces(s, PostalD1(s, i) + 3), CH_HYPHEN))
PostalMatchAt(s, i) ==
  /\ DigitsAt(s, PostalD1(s, i), 3)
  /\ DigitsAt(s, PostalD2(s, i), 4)

extract_postal_code7(address) ==
  LET s == normalize_text(address)
      starts == {i \in 1..Len(s) : PostalMatchAt(s, i)}
      i0 == CHOOSE i \in starts : \A j \in starts : i <= j
  IN  IF starts = {} THEN None
      ELSE SubSeq(s, PostalD1(s, i0), PostalD1(s, i0) + 2)
             \o SubSeq(s, PostalD2(s, i0), PostalD2(s, i0) + 3)

\* r"〒?\s*\d{3}[-]?\d{4}" tried at position i: the index after the match, 0 if none.
PostalStripEnd(s, i) ==
  LET d1 == SkipSpaces(s, SkipOpt(s, i, CH_POSTMARK))
      d2 == SkipOpt(s, d1 + 3, CH_HYPHEN)
  IN  IF DigitsAt(s, d1, 3) /\ DigitsAt(s, d2, 4) THEN d2 + 4 ELSE 0

\* re.sub(r"〒?\s*\d{3}[-]?\d{4}", "", addr)
RECURSIVE RemovePostal(_, _)
RemovePostal(s, i) ==
  IF i > Len(s) THEN <<>>
  ELSE IF PostalStripEnd(s, i) # 0 THEN RemovePostal(s, PostalStripEnd(s, i))
  ELSE <<s[i]>> \o RemovePostal(s, i + 1)

\* re.sub(r"[0-9\-]+.*$", "", addr): cut at the first digit or hyphen.
CutAtDigits(s) ==
  LET hits == {i \in 1..Len(s) : s[i] \in ASCII_DIGITS \cup {CH_HYPHEN}}
  IN  IF hits = {} THEN s
      ELSE SubSeq(s, 1, (CHOOSE i \in hits : \A j \in hits : i <= j) - 1)

\* end of the run of numerals that starts at i
RECURSIVE NumeralRunEnd(_, _)
NumeralRunEnd(s, i) ==
  IF i <= Len(s) /\ s[i] \in KANJI_NUMERALS \cup ASCII_DIGITS
    THEN NumeralRunEnd(s, i + 1) ELSE i

\* re.sub(r"[一二三四五六七八九十〇零0-9]+丁目.*$", "", addr): cut at the first
\* run of numerals that 丁目 follows.
CutAtChome(s) ==
  LET hits == {i \in 1..Len(s) :
                 /\ NumeralRunEnd(s, i) > i
                 /\ MatchAt(s, STR_CHOME, NumeralRunEnd(s, i))}
  IN  IF hits = {} THEN s
      ELSE SubSeq(s, 1, (CHOOSE i \in hits : \A j \in hits : i <= j) - 1)

\* candidates = [addr_no_digits, addr_no_chome, addr], each stripped in the loop
KeywordCandidates(raw_address) ==
  LET addr == RemovePostal(normalize_text(raw_address), 1)
  IN  << Strip(CutAtDigits(addr)), Strip(CutAtChome(addr)), Strip(addr) >>

\* ------------------------------------------------------------------------
\* pick_best_location
\* ------------------------------------------------------------------------
\* A location candidate is a record [prefecture, city, town, postal, x, y];
\* each of the first four is a str, None or Absent.
ScoreKeys == <<"prefecture", "city", "town">>

\* len(str(loc.get(k, "")))
FieldTextLen(v) == IF v = Absent THEN 0 ELSE Len(PyStr(v))

\* score(loc) -> (s + postal_bonus, text_len)
score(loc, addr) ==
  LET hits == {i \in 1..3 : /\ Truthy(loc[ScoreKeys[i]])
                            /\ Contains(addr, normalize_text(loc[ScoreKeys[i]]))}
      postal_bonus == IF Truthy(loc.postal) THEN 1 ELSE 0
      text_len == FieldTextLen(loc.prefecture) + FieldTextLen(loc.city)
                    + FieldTextLen(loc.town)
  IN  << Cardinality(hits) + postal_bonus, text_len >>

\* a > b on pairs of integers
PairGreater(a, b) == a[1] > b[1] \/ (a[1] = b[1] /\ a[2] > b[2])

\* Mutant of MaxScan: a later item with an equal key replaces the held one.
RECURSIVE MaxScan_KeepsLater(_, _, _)
MaxScan_KeepsLater(keys, best, i) ==
  IF i > Len(keys) THEN best
  ELSE MaxScan_KeepsLater(keys, IF PairGreater(keys[best], keys[i]) THEN best ELSE i, i + 1)

\* max(iterable, key=...): the scan keeps the item it holds unless a later
\* one has a strictly greater key.  MaxScan returns the index it ends on.
RECURSIVE MaxScan(_, _, _)
MaxScan(keys, best, i) ==
  IF i > Len(keys) THEN best
  ELSE MaxScan(keys, IF PairGreater(keys[i], keys[best]) THEN i ELSE best, i + 1)

\* index (in locations) of the candidate pick_best_location returns
pick_best_index(locations, raw_address) ==
  LET addr == normalize_text(raw_address)
      keys == [i \in 1..Len(locations) |-> score(locations[i], addr)]
  IN  MaxScan(keys, 1, 2)

pick_best_location(locations, raw_address) ==
  locations[pick_best_index(locations, raw_address)]

\* ------------------------------------------------------------------------
\* parse_distance_to_meters
\* ------------------------------------------------------------------------
\* A float is an integer number of tenths of a metre; float("inf") is PosInf.
\* A raw distance is [t |-> "none"], [t |-> "num", v |-> tenths] (a JSON
\* number) or [t |-> "str", s |-> characters].
PosInf == 1000000000

isfinite(x) == x # PosInf

RECURSIVE DigitRunEnd(_, _)
DigitRunEnd(s, i) == IF IsDigit(s, i) THEN DigitRunEnd(s, i + 1) ELSE i

RECURSIVE DigitsValue(_)
DigitsValue(ds) ==
  IF ds = <<>> THEN 0 ELSE 10 * DigitsValue(SubSeq(ds, 1, Len(ds) - 1)) + (ds[Len(ds)] - 48)

RECURSIVE Pow10(_)
Pow10(n) == IF n = 0 THEN 1 ELSE 10 * Pow10(n - 1)

\* s.lower() on the letters the unit pattern names
Lower(c) == IF c \in 65..90 THEN c + 32 ELSE c

\* the unit replacements of line 295, in order
UNIT_REPLACES ==
  << << <<65357>>, <<109>> >>,
     << <<65355, 65357>>, <<107, 109>> >>,
     << <<65323, 65325>>, <<107, 109>> >>,
     << <<65323, 109>>, <<107, 109>> >>,
     << <<13214>>, <<107, 109>> >> >>

\* r"^([0-9]+(?:\.[0-9]+)?)\s*(km|m)?$", IGNORECASE, then float(group 1),
\* times 1000 for km.  The result is exact in tenths of a metre for a
\* number with at most one decimal in metres (four in kilometres).
ParseDistanceStr(s) ==
  LET e1 == DigitRunEnd(s, 1)
      hasFrac == e1 <= Len(s) /\ s[e1] = 46 /\ IsDigit(s, e1 + 1)
      e2 == IF hasFrac THEN DigitRunEnd(s, e1 + 1) ELSE e1
      u == SkipSpaces(s, e2)
      unit == [i \in 1..(Len(s) - u + 1) |-> Lower(s[u + i - 1])]
      digits == SubSeq(s, 1, e1 - 1) \o (IF hasFrac THEN SubSeq(s, e1 + 1, e2 - 1) ELSE <<>>)
      fracLen == IF hasFrac THEN e2 - e1 - 1 ELSE 0
      mult == IF unit = <<107, 109>> THEN 1000 ELSE 1
  IN  IF e1 > 1 /\ unit \in {<<>>, <<109>>, <<107, 109>>}
        THEN (DigitsValue(digits) * 10 * mult) \div Pow10(fracLen)
        ELSE PosInf

parse_distance_to_meters(distance_value) ==
  IF distance_value.t = "none" THEN PosInf
  ELSE IF distance_value.t = "num" THEN distance_value.v
  ELSE ParseDistanceStr(
         ApplyReplaces(StrReplace(normalize_text(distance_value.s), <<44>>, <<>>),
                       UNIT_REPLACES))

\* ------------------------------------------------------------------------
\* find_walkable_stations: grouping, emission, ranking
\* ------------------------------------------------------------------------
WALK_METERS_PER_MIN == 80

\* int(round(x)) of a float x given in tenths: round half to even
PyRound(x) ==
  LET q == x \div 10
      r == x % 10
  IN  q + (IF r > 5 \/ (r = 5 /\ q % 2 = 1) THEN 1 ELSE 0)

\* int(math.ceil(d / n)) for an integer d and n > 0
CeilDiv(d, n) == -((-d) \div n)

\* a < b on str: by code point, a proper prefix first
RECURSIVE StrLess(_, _)
StrLess(a, b) ==
  IF b = <<>> THEN FALSE
  ELSE IF a = <<>> THEN TRUE
  ELSE IF Head(a) # Head(b) THEN Head(a) < Head(b)
  ELSE StrLess(Tail(a), Tail(b))

\* sorted(list(lines)) of a set of str
RECURSIVE SortedStrings(_)
SortedStrings(S) ==
  IF S = {} THEN <<>>
  ELSE LET m == CHOOSE x \in S : \A y \in S \ {x} : StrLess(x, y)
       IN  <<m>> \o SortedStrings(S \ {m})

\* what one raw station record contributes (lines 413-416)
StName(st) == IF st.name = Absent THEN None ELSE st.name
StPref(st) == IF st.prefecture = Absent THEN <<>> ELSE st.prefecture
StLine(st) == normalize_line_name(IF st.line = Absent THEN None ELSE st.line)
StDist(st) == parse_distance_to_meters(st.distance)

\* line 418: if not name or not line or not math.isfinite(dist_m): continue
Skips(name, line, dist_m) == ~Truthy(name) \/ line = <<>> \/ ~isfinite(dist_m)

\* Mutant of Min2: the later value wins.
Min2_KeepsLast(a, b) == b

\* min(a, b)
Min2(a, b) == IF a <= b THEN a ELSE b

\* The loop of lines 412-426.  grouped is the dict as the sequence of its
\* values in insertion order; a value's key is (str(name), str(pref)).
RECURSIVE GroupRecords(_, _)
GroupRecords(records, grouped) ==
  IF records = <<>> THEN grouped
  ELSE
    LET st == Head(records)
        name == StName(st)
        pref == StPref(st)
        line == StLine(st)
        dist_m == StDist(st)
        key == << PyStr(name), PyStr(pref) >>
        at == {i \in 1..Len(grouped) : <<grouped[i].name, grouped[i].pref>> = key}
        g0 == IF at = {}
                THEN Append(grouped, [name |-> key[1], pref |-> key[2],
                                      lines |-> {}, min_dist |-> dist_m])
                ELSE grouped
        i == CHOOSE k \in 1..Len(g0) : <<g0[k].name, g0[k].pref>> = key
        g1 == [g0 EXCEPT ![i].lines = @ \cup {line},
                         ![i].min_dist = Min2(@, dist_m)]
    IN  IF Skips(name, line, dist_m) THEN GroupRecords(Tail(records), grouped)
        ELSE GroupRecords(Tail(records), g1)

\* Mutant of EmitResults: the test d <= limit_m is left out.
RECURSIVE EmitResults_NoLimit(_, _)
EmitResults_NoLimit(grouped, limit_m) ==
  IF grouped = <<>> THEN <<>>
  ELSE
    LET g == Head(grouped)
        d == PyRound(g.min_dist)
    IN  << [station_name |-> g.name,
            lines |-> SortedStrings(g.lines),
            walk_minutes |-> CeilDiv(d, WALK_METERS_PER_MIN),
            distance_m |-> d,
            pref |-> g.pref] >>
          \o EmitResults_NoLimit(Tail(grouped), limit_m)

\* The loop of lines 429-440.  A StationResult carries station_name, lines,
\* walk_minutes and distance_m; pref is not a field of the code's
\* StationResult: it records which group the result came from.
RECURSIVE EmitResults(_, _)
EmitResults(grouped, limit_m) ==
  IF grouped = <<>> THEN <<>>
  ELSE
    LET g == Head(grouped)
        d == PyRound(g.min_dist)
        r == [station_name |-> g.name,
              lines |-> SortedStrings(g.lines),
              walk_minutes |-> CeilDiv(d, WALK_METERS_PER_MIN),
              distance_m |-> d,
              pref |-> g.pref]
    IN  (IF d <= limit_m THEN <<r>> ELSE <<>>) \o EmitResults(Tail(grouped), limit_m)

\* (r.walk_minutes, r.distance_m, r.station_name) < the same of q
SortKeyLess(r, q) ==
  \/ r.walk_minutes < q.walk_minutes
  \/ /\ r.walk_minutes = q.walk_minutes
     /\ \/ r.distance_m < q.distance_m
        \/ r.distance_m = q.distance_m /\ StrLess(r.station_name, q.station_name)

\* list.sort(key=...) is stable: an item goes after every item not greater.
RECURSIVE InsertByKey(_, _)
InsertByKey(sorted, r) ==
  IF sorted = <<>> THEN <<r>>
  ELSE IF SortKeyLess(r, Head(sorted)) THEN <<r>> \o sorted
  ELSE <<Head(sorted)>> \o InsertByKey(Tail(sorted), r)

\* Mutant of SortResults: the emitted order is kept.
SortResults_Unsorted(results) == results

RECURSIVE SortResults(_)
SortResults(results) ==
  IF results = <<>> THEN <<>>
  ELSE InsertByKey(SortResults(SubSeq(results, 1, Len(results) - 1)),
                   results[Len(results)])

\* results[:max_candidates] for max_candidates > 0
Truncate(results, n) == SubSeq(results, 1, IF n <= Len(results) THEN n ELSE Len(results))

\* lines 407-443 of find_walkable_stations, from the raw station records on
RankStations(stations_raw, max_walk_min, max_candidates) ==
  Truncate(
    SortResults(EmitResults(GroupRecords(stations_raw, <<>>),
                            max_walk_min * WALK_METERS_PER_MIN)),
    max_candidates)

\* ========================================================================
\* State
\* ========================================================================
\* One variable per part of the program a run exercises; a part that a
\* specification does not exercise stays Idle.
\*   http : one call of _get_json (attempt counter, sleeps, outcome)
\*   geo  : one call of find_walkable_stations up to the station lookup
\*   agg  : the ranking of the raw station records of one call
\*   norm : normalize_line_name applied to a label, and to its own result
\*   pick : pick_best_location on a candidate list
VARIABLES http, geo, agg, norm, pick

vars == <<http, geo, agg, norm, pick>>

Idle == [pc |-> "idle"]

\* ------------------------------------------------------------------------
\* Ranking: inputs
\* ------------------------------------------------------------------------
NAME_A == <<65>>
NAME_B == <<66>>
PREF_P == <<80>>
\* "ＪＲX" and "JRX" normalize to the same label; "Y" is another line
RAW_LINE_JR_FW == <<65322, 65330, 88>>
RAW_LINE_JR == <<74, 82, 88>>
RAW_LINE_Y == <<89>>

NumDist(v) == [t |-> "num", v |-> v]
StrDist(s) == [t |-> "str", s |-> s]

\* (line, distance) of the records each station key comes with: 150 (a JSON
\* number) on line Y, "90m" on line ＪＲX
LineDistInputs ==
  { <<RAW_LINE_Y, NumDist(1500)>>,
    <<RAW_LINE_JR_FW, StrDist(<<57, 48, 109>>)>> }

StationKeyInputs == { <<NAME_A, PREF_P>>, <<NAME_A, Absent>>, <<NAME_B, PREF_P>> }

StationInputs ==
  { [name |-> k[1], prefecture |-> k[2], line |-> ld[1], distance |-> ld[2]] :
      k \in StationKeyInputs, ld \in LineDistInputs }
  \cup
  { \* 80.5 (a JSON number) on line JRX
    [name |-> NAME_A, prefecture |-> PREF_P, line |-> RAW_LINE_JR, distance |-> NumDist(805)],
    \* no name, an empty line, an unparseable distance: dropped by line 418
    [name |-> None, prefecture |-> PREF_P, line |-> RAW_LINE_Y, distance |-> NumDist(500)],
    [name |-> NAME_B, prefecture |-> PREF_P, line |-> <<>>, distance |-> NumDist(500)],
    [name |-> NAME_B, prefecture |-> PREF_P, line |-> RAW_LINE_Y,
     distance |-> StrDist(<<97, 98, 99>>)],
    \* a negative JSON number: -100
    [name |-> NAME_B, prefecture |-> PREF_P, line |-> RAW_LINE_Y, distance |-> NumDist(-1000)] }

WalkMinInputs == {1, 2}
CandidateInputs == {1, 2}

\* ------------------------------------------------------------------------
\* Ranking: actions
\* ------------------------------------------------------------------------
InitAgg ==
  /\ http = Idle /\ geo = Idle /\ norm = Idle /\ pick = Idle
  /\ \E mw \in WalkMinInputs, mc \in CandidateInputs :
       agg = [pc |-> "input", stations_raw |-> <<>>, max_walk_min |-> mw,
              max_candidates |-> mc, results |-> <<>>]

\* the station service's response grows by one record
AggReceive ==
  /\ agg.pc = "input"
  /\ Len(agg.stations_raw) < MaxRecords
  /\ \E st \in StationInputs :
       agg' = [agg EXCEPT !.stations_raw = Append(@, st)]
  /\ UNCHANGED <<http, geo, norm, pick>>

\* lines 407-443
AggRank ==
  /\ agg.pc = "input"
  /\ agg' = [agg EXCEPT !.pc = "done",
                        !.results = RankStations(agg.stations_raw, agg.max_walk_min,
                                                 agg.max_candidates)]
  /\ UNCHANGED <<http, geo, norm, pick>>

AggNext == AggReceive \/ AggRank

SpecAgg == InitAgg /\ [][AggNext]_vars

\* ------------------------------------------------------------------------
\* Ranking: what the result is measured against
\* ------------------------------------------------------------------------
AggDone == agg.pc = "done"

\* For each record the station service can return: whether line 418 drops
\* it, its key, its normalized line and its distance in tenths of a metre.
StationFacts ==
  [st \in StationInputs |->
     [dropped |-> Skips(StName(st), StLine(st), StDist(st)),
      key |-> << PyStr(StName(st)), PyStr(StPref(st)) >>,
      line |-> StLine(st),
      dist |-> StDist(st)]]

Fact(i) == StationFacts[agg.stations_raw[i]]

\* indices of the records of stations_raw that line 418 keeps
Kept == {i \in 1..Len(agg.stations_raw) : ~Fact(i).dropped}

KeptKeys == {Fact(i).key : i \in Kept}

KeptOf(key) == {i \in Kept : Fact(i).key = key}

LinesOf(key) == {Fact(i).line : i \in KeptOf(key)}

\* the least distance (tenths of a metre) among the records of a key
LeastDist(key) ==
  LET ds == {Fact(i).dist : i \in KeptOf(key)}
  IN  CHOOSE d \in ds : \A e \in ds : d <= e

RankOf(key) ==
  [station_name |-> key[1],
   walk_minutes |-> CeilDiv(PyRound(LeastDist(key)), WALK_METERS_PER_MIN),
   distance_m |-> PyRound(LeastDist(key))]

LimitM == agg.max_walk_min * WALK_METERS_PER_MIN

Qualifying == {k \in KeptKeys : PyRound(LeastDist(k)) <= LimitM}

ResultKey(r) == <<r.station_name, r.pref>>

Returned == {ResultKey(agg.results[i]) : i \in 1..Len(agg.results)}

StrictlyIncreasing(ss) == \A i \in 1..(Len(ss) - 1) : StrLess(ss[i], ss[i + 1])

\* ------------------------------------------------------------------------
\* Ranking: claims
\* ------------------------------------------------------------------------
\* C3: the result never holds two StationResults of the same (station_name,
\* prefecture) key, and every distance_m is at most max_walk_min * 80.
C3_OnePerKeyWithinLimit ==
  AggDone =>
    /\ \A i, j \in 1..Len(agg.results) :
         i # j => ResultKey(agg.results[i]) # ResultKey(agg.results[j])
    /\ \A i \in 1..Len(agg.results) : agg.results[i].distance_m <= LimitM

\* Two kept records share a key whose station is returned, and another
\* station is kept out by the distance limit.
C3_Witness ==
  /\ AggDone
  /\ \E k \in Returned : Cardinality(KeptOf(k)) >= 2
  /\ KeptKeys \ Qualifying # {}

\* C4: a returned station's lines are the sorted, duplicate-free union of the
\* normalized lines of its records, its distance_m the least distance of
\* them rounded, its walk_minutes ceil(distance_m / 80).  The union and the
\* least distance are taken over the set of the station's records, so
\* neither depends on the order the records arrive in.
C4_LinesUnionMinDistance ==
  AggDone =>
    \A i \in 1..Len(agg.results) :
         LET r == agg.results[i]
         IN  /\ ResultKey(r) \in KeptKeys
             /\ StrictlyIncreasing(r.lines)
             /\ {r.lines[k] : k \in 1..Len(r.lines)} = LinesOf(ResultKey(r))
             /\ r.distance_m = PyRound(LeastDist(ResultKey(r)))
             /\ r.walk_minutes = CeilDiv(r.distance_m, WALK_METERS_PER_MIN)

\* The spec's example: 150 m on line Y arrives first, then 90 m on line
\* JRX, for one station: one result, lines [JRX, Y], 90 m, 2 minutes.
C4_Witness ==
  /\ AggDone
  /\ Len(agg.stations_raw) = 2
  /\ Fact(1).key = Fact(2).key
  /\ Fact(1).dist = 1500 /\ Fact(1).line = RAW_LINE_Y
  /\ Fact(2).dist = 900
  /\ Len(agg.results) = 1
  /\ agg.results[1].lines = <<RAW_LINE_JR, RAW_LINE_Y>>
  /\ agg.results[1].distance_m = 90
  /\ agg.results[1].walk_minutes = 2

\* C5: the result is sorted ascending by (walk_minutes, distance_m,
\* station_name), holds min(max_candidates, number of qualifying stations)
\* entries, and no qualifying station left out ranks strictly before one
\* that is returned.
C5_SortedPrefix ==
  AggDone =>
    /\ \A i, j \in 1..Len(agg.results) :
         i < j => ~SortKeyLess(agg.results[j], agg.results[i])
    /\ Len(agg.results) = Min2(agg.max_candidates, Cardinality(Qualifying))
    /\ Returned \subseteq Qualifying
    /\ \A q \in Qualifying \ Returned :
         \A i \in 1..Len(agg.results) : ~SortKeyLess(RankOf(q), agg.results[i])

\* Three stations qualify, two are asked for and returned, at different ranks.
C5_Witness ==
  /\ AggDone
  /\ agg.max_candidates = 2
  /\ Cardinality(Qualifying) = 3
  /\ Len(agg.results) = 2
  /\ SortKeyLess(agg.results[1], agg.results[2])
  /\ \E q \in Qualifying \ Returned : SortKeyLess(agg.results[2], RankOf(q))

\* C8: every returned StationResult has walk_minutes >= 0 and distance_m >= 0.
C8_NonNegative ==
  AggDone =>
    \A i \in 1..Len(agg.results) :
      agg.results[i].walk_minutes >= 0 /\ agg.results[i].distance_m >= 0

\* ========================================================================
\* _get_json: one call
\* ========================================================================
API_RETRY_COUNT == 2
\* API_RETRY_BACKOFF_SEC = 0.6, in milliseconds
API_RETRY_BACKOFF_MS == 600

GEO_API_URL == "https://geoapi.heartrails.com/api/json"
EXPRESS_API_URL == "https://express.heartrails.com/api/json"

\* Mutant of total_attempts: the initial attempt is not counted.
total_attempts_RetriesOnly == API_RETRY_COUNT

\* total_attempts = 1 + API_RETRY_COUNT
total_attempts == 1 + API_RETRY_COUNT

RECURSIVE Pow2(_)
Pow2(n) == IF n = 0 THEN 1 ELSE 2 * Pow2(n - 1)

\* API_RETRY_BACKOFF_SEC * (2 ** (attempt - 1)), in milliseconds
Backoff(attempt) == API_RETRY_BACKOFF_MS * Pow2(attempt - 1)

\* What one GET can come back with: no response at all (a timeout, a refused
\* connection), or a status and a body.  body is "not_json", "json_list" (a
\* JSON value that is no object), "json_error" (an object whose "error" is
\* truthy), "json_error_empty" (an object whose "error" is there but falsy)
\* or "json_object".
HttpResponses ==
  { [transport |-> "failed", status |-> 0, body |-> "none"] }
  \cup { [transport |-> "ok", status |-> s, body |-> "json_object"] : s \in {404, 500} }
  \cup { [transport |-> "ok", status |-> 200, body |-> b] :
           b \in {"not_json", "json_list", "json_error", "json_error_empty", "json_object"} }

\* The exception lines 158-175 raise on a response, "none" when line 177
\* returns the data.
AttemptException(resp) ==
  IF resp.transport = "failed" THEN "RequestException"
  ELSE IF resp.status >= 400 THEN "HTTPError"
  ELSE IF resp.body = "not_json" THEN "ValueError: not JSON"
  ELSE IF resp.body = "json_error" THEN "ValueError: API error"
  ELSE IF resp.body = "json_list" THEN "ValueError: unexpected type"
  ELSE "none"

InitHttp ==
  /\ geo = Idle /\ agg = Idle /\ norm = Idle /\ pick = Idle
  /\ \E u \in {GEO_API_URL, EXPRESS_API_URL} :
       http = [pc |-> "attempt", url |-> u, attempt |-> 1, log |-> <<>>,
               slept |-> <<>>, last_exc |-> "none", returned |-> "none",
               raised |-> <<>>]

\* lines 158-177: the GET succeeds and the data is returned
HttpReturn ==
  /\ http.pc = "attempt"
  /\ http.attempt <= total_attempts
  /\ \E resp \in HttpResponses :
       /\ AttemptException(resp) = "none"
       /\ http' = [http EXCEPT !.pc = "returned",
                               !.log = Append(@, "none"),
                               !.returned = resp.body]
  /\ UNCHANGED <<geo, agg, norm, pick>>

\* lines 179-183: the attempt fails before the last one: sleep, then retry
HttpRetry ==
  /\ http.pc = "attempt"
  /\ http.attempt <= total_attempts
  /\ http.attempt < total_attempts
  /\ \E resp \in HttpResponses :
       /\ AttemptException(resp) # "none"
       /\ http' = [http EXCEPT !.log = Append(@, AttemptException(resp)),
                               !.last_exc = AttemptException(resp),
                               !.slept = Append(@, Backoff(http.attempt)),
                               !.attempt = @ + 1]
  /\ UNCHANGED <<geo, agg, norm, pick>>

\* lines 179-184: the last attempt fails: RuntimeError(url) from last_exc
HttpRaise ==
  /\ http.pc = "attempt"
  /\ http.attempt <= total_attempts
  /\ ~(http.attempt < total_attempts)
  /\ \E resp \in HttpResponses :
       /\ AttemptException(resp) # "none"
       /\ http' = [http EXCEPT !.pc = "raised",
                               !.log = Append(@, AttemptException(resp)),
                               !.last_exc = AttemptException(resp),
                               !.raised = Append(@, [type |-> "RuntimeError",
                                                     url |-> http.url,
                                                     cause |-> AttemptException(resp)])]
  /\ UNCHANGED <<geo, agg, norm, pick>>

HttpNext == HttpReturn \/ HttpRetry \/ HttpRaise

SpecHttp == InitHttp /\ [][HttpNext]_vars

\* the attempts made so far, and those that failed
HttpAttempts == Len(http.log)
HttpFailed == {i \in 1..Len(http.log) : http.log[i] # "none"}

LinePieces ==
  { <<26481, 20140, 37117, 20132, 36890, 23616>>,  \* 東京都交通局
    <<37117, 21942, 22320, 19979, 37444>>,         \* 都営地下鉄
    <<26481, 20140, 22320, 19979, 37444>>,         \* 東京地下鉄
    <<22320, 19979, 37444>>,                       \* 地下鉄
    <<27973, 33609, 32218>>,                       \* 浅草線
    <<21335, 21271, 32218>>,                       \* 南北線
    <<65322, 65330>>,                              \* ＪＲ
    <<20185, 21488, 24066>>,                       \* 仙台市
    <<22823, 38442, 24066>>,                       \* 大阪市
    <<21942>>,                                     \* 営
    <<32>>,                                        \* a space
    <<26481, 20140, 33256, 28023, 26032, 20132, 36890, 33256, 28023, 32218>> }
                                                   \* 東京臨海新交通臨海線

InitNorm ==
  /\ http = Idle /\ geo = Idle /\ agg = Idle /\ pick = Idle
  /\ norm = [pc |-> "input", pieces |-> 0, line |-> <<>>, once |-> <<>>, twice |-> <<>>]

\* the raw label grows by one piece
NormAppend ==
  /\ norm.pc = "input"
  /\ norm.pieces < MaxPieces
  /\ \E piece \in LinePieces :
       norm' = [norm EXCEPT !.pieces = @ + 1, !.line = @ \o piece]
  /\ UNCHANGED <<http, geo, agg, pick>>

NormOnce ==
  /\ norm.pc = "input"
  /\ norm' = [norm EXCEPT !.pc = "once", !.once = normalize_line_name(norm.line)]
  /\ UNCHANGED <<http, geo, agg, pick>>

NormTwice ==
  /\ norm.pc = "once"
  /\ norm' = [norm EXCEPT !.pc = "twice", !.twice = normalize_line_name(norm.once)]
  /\ UNCHANGED <<http, geo, agg, pick>>

NormNext == NormAppend \/ NormOnce \/ NormTwice

SpecNorm == InitNorm /\ [][NormNext]_vars

\* C7: normalize_line_name(normalize_line_name(s)) = normalize_line_name(s)
C7_Idempotent == norm.pc = "twice" => norm.twice = norm.once

\* ========================================================================
\* Location candidates of the geocoding service
\* ========================================================================
\* A coordinate field is [t |-> "absent"] (no such key), [t |-> "null"],
\* [t |-> "num", v |-> thousandths of a degree] or [t |-> "str", s |-> characters].
CoordStr(s) == [t |-> "str", s |-> s]

\* float(s) of a str: surrounding whitespace, an optional sign, digits with
\* an optional fraction.  The value is in thousandths (exact for at most
\* three decimals); any other text is a ValueError here (exponents, "inf"
\* and "nan" are not among the inputs).
FloatOfStr(s) ==
  LET u == Strip(s)
      signed == u # <<>> /\ u[1] \in {43, 45}
      b == IF signed THEN 2 ELSE 1
      e1 == DigitRunEnd(u, b)
      hasDot == e1 <= Len(u) /\ u[e1] = 46
      e2 == IF hasDot THEN DigitRunEnd(u, e1 + 1) ELSE e1
      digits == SubSeq(u, b, e1 - 1) \o (IF hasDot THEN SubSeq(u, e1 + 1, e2 - 1) ELSE <<>>)
      fracLen == IF hasDot THEN e2 - e1 - 1 ELSE 0
      mag == (DigitsValue(digits) * 1000) \div Pow10(fracLen)
  IN  IF e2 = Len(u) + 1 /\ digits # <<>>
        THEN [ok |-> TRUE, v |-> IF signed /\ u[1] = 45 THEN -mag ELSE mag]
        ELSE [ok |-> FALSE, exc |-> "ValueError"]

\* float(best[k]): KeyError without the key, TypeError on null
FloatOfField(c) ==
  IF c.t = "absent" THEN [ok |-> FALSE, exc |-> "KeyError"]
  ELSE IF c.t = "null" THEN [ok |-> FALSE, exc |-> "TypeError"]
  ELSE IF c.t = "num" THEN [ok |-> TRUE, v |-> c.v]
  ELSE FloatOfStr(c.s)

\* float(best["x"]), float(best["y"]): the pair, or the first exception
Coordinates(best) ==
  LET x == FloatOfField(best.x)
      y == FloatOfField(best.y)
  IN  IF ~x.ok THEN x
      ELSE IF ~y.ok THEN y
      ELSE [ok |-> TRUE, v |-> <<x.v, y.v>>]

PREF_MIYAGI == <<23470, 22478, 30476>>     \* 宮城県
CITY_SENDAI == <<20185, 21488, 24066>>     \* 仙台市
TOWN_CHUO == <<20013, 22830>>              \* 中央
TOWN_HONCHO == <<26412, 30010>>            \* 本町
POSTAL_9800021 == <<57, 56, 48, 48, 48, 50, 49>>
X_SENDAI == CoordStr(<<49, 52, 48, 46, 56, 55, 50>>)   \* "140.872"
Y_SENDAI == CoordStr(<<51, 56, 46, 50, 54>>)           \* "38.26"

LOC_GOOD ==
  [prefecture |-> PREF_MIYAGI, city |-> CITY_SENDAI, town |-> TOWN_CHUO,
   postal |-> POSTAL_9800021, x |-> X_SENDAI, y |-> Y_SENDAI]
\* the same place without the key x
LOC_NO_X == [LOC_GOOD EXCEPT !.x = [t |-> "absent"]]
\* another town, and a y that is no number
LOC_BAD_Y == [LOC_GOOD EXCEPT !.town = TOWN_HONCHO, !.y = CoordStr(<<97, 98, 99>>)]
\* no postal code, a null city, no town
LOC_SPARSE ==
  [prefecture |-> PREF_MIYAGI, city |-> None, town |-> Absent,
   postal |-> Absent, x |-> [t |-> "null"], y |-> Y_SENDAI]
\* the town of LOC_BAD_Y with usable coordinates
LOC_HONCHO == [LOC_GOOD EXCEPT !.town = TOWN_HONCHO]

LocationInputs == {LOC_GOOD, LOC_NO_X, LOC_BAD_Y, LOC_SPARSE, LOC_HONCHO}

ADDR_SENDAI_CHOME ==  \* 宮城県仙台市中央1丁目
  <<23470, 22478, 30476, 20185, 21488, 24066, 20013, 22830, 49, 19969, 30446>>
ADDR_TOKYO == <<26481, 20140, 37117>>  \* 東京都

\* ========================================================================
\* pick_best_location on a candidate list
\* ========================================================================
InitPick ==
  /\ http = Idle /\ geo = Idle /\ agg = Idle /\ norm = Idle
  /\ \E a \in {ADDR_SENDAI_CHOME, ADDR_TOKYO} :
       pick = [pc |-> "input", raw_address |-> a, locations |-> <<>>, best |-> 0]

\* the service's candidate list grows by one candidate not yet in it
PickReceive ==
  /\ pick.pc = "input"
  /\ Len(pick.locations) < MaxLocs
  /\ \E loc \in LocationInputs :
       /\ \A i \in 1..Len(pick.locations) : pick.locations[i] # loc
       /\ pick' = [pick EXCEPT !.locations = Append(@, loc)]
  /\ UNCHANGED <<http, geo, agg, norm>>

\* pick_best_location(locations, raw_address), called with a non-empty list
\* only (lines 347, 368); best is the position of the candidate returned
PickBest ==
  /\ pick.pc = "input"
  /\ pick.locations # <<>>
  /\ pick' = [pick EXCEPT !.pc = "done",
                          !.best = pick_best_index(pick.locations, pick.raw_address)]
  /\ UNCHANGED <<http, geo, agg, norm>>

PickNext == PickReceive \/ PickBest

SpecPick == InitPick /\ [][PickNext]_vars

PickScore(i) == score(pick.locations[i], normalize_text(pick.raw_address))

\* no candidate scores strictly more than the i-th
PickIsMax(i) ==
  \A j \in 1..Len(pick.locations) : ~PairGreater(PickScore(j), PickScore(i))

PickMaxima == {i \in 1..Len(pick.locations) : PickIsMax(i)}

\* C10 as stated: the candidate returned has the greatest score, and among
\* the candidates with that score it is the last of the list.
C10_LastOfMaxima ==
  pick.pc = "done" =>
    /\ pick.best \in PickMaxima
    /\ \A i \in PickMaxima : i <= pick.best

\* C10 as amended: the candidate returned has the greatest score, and among
\* the candidates with that score it is the first of the list.
C10_FirstOfMaxima ==
  pick.pc = "done" =>
    /\ pick.best \in PickMaxima
    /\ \A i \in PickMaxima : pick.best <= i

\* Two candidates share the greatest score, a lesser one comes first, and
\* the first of the two is returned.
C10_Witness ==
  /\ pick.pc = "done"
  /\ Len(pick.locations) = 3
  /\ PickMaxima = {2, 3}
  /\ pick.best = 2

\* ========================================================================
\* find_walkable_stations: validation, geocoding, station lookup
\* ========================================================================
\* lines 395-402: the ValueError the arguments raise, "none" if they pass
ERR_ADDRESS == "ValueError: address is empty"
ERR_WALK == "ValueError: max_walk_min must be 1 or more"
ERR_CANDIDATES == "ValueError: max_candidates must be 1 or more"
\* line 352, line 375, lines 184-186
ERR_POSTAL_COORD == "ValueError: no coordinates in the postal lookup result"
ERR_GEOCODE == "ValueError: no coordinates for the address"
ERR_API == "RuntimeError: API call failed"

\* Mutant of InputError: max_candidates is not checked.
InputError_NoCandidateCheck(raw_address, max_walk_min, max_candidates) ==
  IF raw_address = <<>> \/ Strip(raw_address) = <<>> THEN ERR_ADDRESS
  ELSE IF max_walk_min <= 0 THEN ERR_WALK
  ELSE "none"

InputError(raw_address, max_walk_min, max_candidates) ==
  IF raw_address = <<>> \/ Strip(raw_address) = <<>> THEN ERR_ADDRESS
  ELSE IF max_walk_min <= 0 THEN ERR_WALK
  ELSE IF max_candidates <= 0 THEN ERR_CANDIDATES
  ELSE "none"

\* Mutant of Matchings: like is tried before exact.
Matchings_LikeFirst == <<"like", "exact">>

\* line 366: for matching in ("exact", "like")
Matchings == <<"exact", "like">>

\* What a call of the geocoding service ends in: _get_json raises after its
\* retries (ok = FALSE), or the value of response.location.
JsonNull == [t |-> "null"]
JsonList(items) == [t |-> "list", items |-> items]
JsonObject(item) == [t |-> "object", item |-> item]

GeoReplies ==
  { [ok |-> FALSE, location |-> JsonNull] }
  \cup { [ok |-> TRUE, location |-> v] :
           v \in { JsonNull,
                   JsonList(<<>>),
                   JsonList(<<LOC_GOOD>>),
                   JsonObject(LOC_HONCHO),
                   JsonObject(LOC_BAD_Y),
                   JsonList(<<LOC_NO_X, LOC_GOOD>>),
                   JsonList(<<LOC_SPARSE, LOC_GOOD>>) } }

\* how a reply is summarized in the call log
ReplyResult(reply, raw_address) ==
  IF ~reply.ok THEN "failure"
  ELSE IF _as_list(reply.location) = <<>> THEN "empty"
  ELSE IF Coordinates(pick_best_location(_as_list(reply.location), raw_address)).ok
    THEN "usable"
  ELSE "unusable"

ReplyXY(reply, raw_address) ==
  Coordinates(pick_best_location(_as_list(reply.location), raw_address)).v

ADDR_EMPTY == <<>>
ADDR_BLANK == <<32, 12288, 32>>
ADDR_FULL ==  \* 〒980-0021 仙台市中央二丁目10-20
  <<12306, 57, 56, 48, 45, 48, 48, 50, 49, 32, 20185, 21488, 24066, 20013, 22830,
    20108, 19969, 30446, 49, 48, 45, 50, 48>>
ADDR_NO_POSTAL == <<20185, 21488, 24066, 20013, 22830, 49, 45, 50>>  \* 仙台市中央1-2
ADDR_SPACED_POSTAL == <<57, 56, 48, 32, 48, 48, 50, 49>>             \* 980 0021
ADDR_POSTAL_ONLY ==  \* 〒９８０－００２１
  <<12306, 65305, 65304, 65296, 65293, 65296, 65296, 65298, 65297>>
ADDR_ONE_CHAR == <<65>>                                              \* A

AddressInputs ==
  { ADDR_EMPTY, ADDR_BLANK, ADDR_FULL, ADDR_NO_POSTAL, ADDR_SPACED_POSTAL,
    ADDR_POSTAL_ONLY, ADDR_ONE_CHAR }

WalkMinArgs == {-1, 0, 30}
CandidateArgs == {0, 3}

InitGeo ==
  /\ http = Idle /\ agg = Idle /\ norm = Idle /\ pick = Idle
  /\ \E a \in AddressInputs, mw \in WalkMinArgs, mc \in CandidateArgs :
       geo = [pc |-> "validate", raw_address |-> a, max_walk_min |-> mw,
              max_candidates |-> mc, kw |-> 1, matching |-> 1, calls |-> <<>>,
              error |-> "none", xy |-> <<>>]

GeoFail(g, err) == [g EXCEPT !.pc = "failed", !.error = err]

GeoCall(method, arg, matching, result) ==
  [method |-> method, arg |-> arg, matching |-> matching, result |-> result]

\* lines 395-402: an argument is rejected
GeoReject ==
  /\ geo.pc = "validate"
  /\ InputError(geo.raw_address, geo.max_walk_min, geo.max_candidates) # "none"
  /\ geo' = GeoFail(geo, InputError(geo.raw_address, geo.max_walk_min, geo.max_candidates))
  /\ UNCHANGED <<http, agg, norm, pick>>

\* lines 395-404: the arguments pass, geocode_address_to_xy is entered
GeoAccept ==
  /\ geo.pc = "validate"
  /\ InputError(geo.raw_address, geo.max_walk_min, geo.max_candidates) = "none"
  /\ geo' = [geo EXCEPT !.pc = "geocode"]
  /\ UNCHANGED <<http, agg, norm, pick>>

\* Mutant of PostalStep: a best candidate without coordinates falls through
\* to the keyword search.
PostalStep_FallsThrough(g, reply) ==
  LET postal7 == extract_postal_code7(g.raw_address)
      result == ReplyResult(reply, g.raw_address)
      logged == [g EXCEPT !.calls = Append(@, GeoCall("searchByPostal", postal7, "", result))]
  IN  IF result = "failure" THEN GeoFail(logged, ERR_API)
      ELSE IF result = "usable"
        THEN [logged EXCEPT !.pc = "stations", !.xy = ReplyXY(reply, g.raw_address)]
      ELSE [logged EXCEPT !.pc = "suggest"]

\* lines 346-352: the postal lookup and what follows from its reply
PostalStep(g, reply) ==
  LET postal7 == extract_postal_code7(g.raw_address)
      result == ReplyResult(reply, g.raw_address)
      logged == [g EXCEPT !.calls = Append(@, GeoCall("searchByPostal", postal7, "", result))]
  IN  IF result = "failure" THEN GeoFail(logged, ERR_API)
      ELSE IF result = "usable"
        THEN [logged EXCEPT !.pc = "stations", !.xy = ReplyXY(reply, g.raw_address)]
      ELSE IF result = "unusable" THEN GeoFail(logged, ERR_POSTAL_COORD)
      ELSE [logged EXCEPT !.pc = "suggest"]

\* lines 344-352: a postal code is found and looked up
GeoPostalLookup ==
  /\ geo.pc = "geocode"
  /\ extract_postal_code7(geo.raw_address) # None
  /\ \E reply \in GeoReplies : geo' = PostalStep(geo, reply)
  /\ UNCHANGED <<http, agg, norm, pick>>

\* lines 344-345: no postal code in the address
GeoNoPostal ==
  /\ geo.pc = "geocode"
  /\ extract_postal_code7(geo.raw_address) = None
  /\ geo' = [geo EXCEPT !.pc = "suggest"]
  /\ UNCHANGED <<http, agg, norm, pick>>

\* lines 360-363: a keyword shorter than two characters is passed over
GeoSkipKeyword ==
  /\ geo.pc = "suggest"
  /\ geo.kw <= 3
  /\ Len(KeywordCandidates(geo.raw_address)[geo.kw]) < 2
  /\ geo' = [geo EXCEPT !.kw = @ + 1]
  /\ UNCHANGED <<http, agg, norm, pick>>

\* lines 366-373: one geo_suggest call and what follows from its reply
SuggestStep(g, reply) ==
  LET kw == KeywordCandidates(g.raw_address)[g.kw]
      result == ReplyResult(reply, g.raw_address)
      logged == [g EXCEPT !.calls = Append(@, GeoCall("suggest", kw, Matchings[g.matching], result))]
  IN  IF result = "failure" THEN GeoFail(logged, ERR_API)
      ELSE IF result = "usable"
        THEN [logged EXCEPT !.pc = "stations", !.xy = ReplyXY(reply, g.raw_address)]
      ELSE IF g.matching < Len(Matchings) THEN [logged EXCEPT !.matching = @ + 1]
      ELSE [logged EXCEPT !.kw = @ + 1, !.matching = 1]

GeoSuggest ==
  /\ geo.pc = "suggest"
  /\ geo.kw <= 3
  /\ Len(KeywordCandidates(geo.raw_address)[geo.kw]) >= 2
  /\ \E reply \in GeoReplies : geo' = SuggestStep(geo, reply)
  /\ UNCHANGED <<http, agg, norm, pick>>

\* line 375: every keyword is used up
GeoExhausted ==
  /\ geo.pc = "suggest"
  /\ geo.kw > 3
  /\ geo' = GeoFail(geo, ERR_GEOCODE)
  /\ UNCHANGED <<http, agg, norm, pick>>

\* line 405: express_get_near_stations; the records are ranked from there
GeoStations ==
  /\ geo.pc = "stations"
  /\ \E ok \in BOOLEAN :
       geo' = IF ok
                THEN [geo EXCEPT !.pc = "ranking",
                                 !.calls = Append(@, GeoCall("getStations", <<>>, "", "received"))]
                ELSE GeoFail([geo EXCEPT !.calls = Append(@, GeoCall("getStations", <<>>, "", "failure"))],
                             ERR_API)
  /\ UNCHANGED <<http, agg, norm, pick>>

GeoNext ==
  \/ GeoReject \/ GeoAccept \/ GeoPostalLookup \/ GeoNoPostal
  \/ GeoSkipKeyword \/ GeoSuggest \/ GeoExhausted \/ GeoStations

SpecGeo == InitGeo /\ [][GeoNext]_vars

\* ------------------------------------------------------------------------
\* Validation and geocoding: claims
\* ------------------------------------------------------------------------
\* an empty or whitespace-only address, or a bound that is not positive
InvalidArgs ==
  \/ \A i \in 1..Len(geo.raw_address) : geo.raw_address[i] \in WhiteSpace
  \/ geo.max_walk_min <= 0
  \/ geo.max_candidates <= 0

\* C6: with an empty or whitespace-only address, max_walk_min <= 0 or
\* max_candidates <= 0 the call fails with the validation error and no
\* network call (geocoding or station lookup) is ever made.
C6_RejectsBeforeNetwork ==
  InvalidArgs =>
    /\ geo.calls = <<>>
    /\ geo.pc \in {"validate", "failed"}
    /\ geo.pc = "failed" => geo.error \in {ERR_ADDRESS, ERR_WALK, ERR_CANDIDATES}

\* A well-formed address with max_candidates = 0 has been rejected.
C6_Witness ==
  /\ geo.pc = "failed"
  /\ geo.raw_address = ADDR_FULL
  /\ geo.max_walk_min = 30
  /\ geo.max_candidates = 0
  /\ geo.error = ERR_CANDIDATES
  /\ geo.calls = <<>>

IsSuggest(call) == call.method = "suggest"
LongEnough(kw) == Len(kw) >= 2

SuggestCalls == SelectSeq(geo.calls, IsSuggest)

\* the geo_suggest calls of a geocoding that finds nothing: each keyword of
\* two characters or more, in the order of the three, exact and then like
ExpectedSuggests ==
  LET kws == SelectSeq(KeywordCandidates(geo.raw_address), LongEnough)
  IN  [i \in 1..(2 * Len(kws)) |->
         [arg |-> kws[(i + 1) \div 2],
          matching |-> IF i % 2 = 1 THEN "exact" ELSE "like"]]

PostalReply(result) ==
  /\ geo.calls # <<>>
  /\ geo.calls[1].method = "searchByPostal"
  /\ geo.calls[1].result = result

\* C2: after a postal lookup without candidates the geocoder does not raise
\* but goes on to the keyword search; its calls are, in order, exact and then
\* like for each keyword of two characters or more, and it gives up (line
\* 375) only when all of them came back without a usable coordinate.  The
\* only other way out is an API failure, which _get_json raises.
C2_PostalEmptyFallsThrough ==
  PostalReply("empty") =>
    /\ Len(geo.calls) = 1 =>
         \/ geo.pc = "suggest" /\ geo.error = "none"
         \/ geo.pc = "failed" /\ geo.error = ERR_GEOCODE /\ ExpectedSuggests = <<>>
    /\ Len(SuggestCalls) <= Len(ExpectedSuggests)
    /\ \A i \in 1..Len(SuggestCalls) :
         /\ SuggestCalls[i].arg = ExpectedSuggests[i].arg
         /\ SuggestCalls[i].matching = ExpectedSuggests[i].matching
         /\ i < Len(SuggestCalls) => SuggestCalls[i].result \in {"empty", "unusable"}
    /\ geo.pc = "failed" => geo.error \in {ERR_GEOCODE, ERR_API}
    /\ geo.error = ERR_API => geo.calls[Len(geo.calls)].result = "failure"
    /\ geo.error = ERR_GEOCODE =>
         /\ Len(SuggestCalls) = Len(ExpectedSuggests)
         /\ \A i \in 1..Len(SuggestCalls) : SuggestCalls[i].result \in {"empty", "unusable"}

\* The postal lookup found nothing, three keywords were each tried exact and
\* like, one reply had candidates without coordinates, and the geocoder gave up.
C2_Witness ==
  /\ PostalReply("empty")
  /\ geo.error = ERR_GEOCODE
  /\ Len(SuggestCalls) = 6
  /\ \E i \in 1..6 : SuggestCalls[i].result = "unusable"
  /\ SuggestCalls[1].arg # SuggestCalls[3].arg
  /\ SuggestCalls[3].arg # SuggestCalls[5].arg

\* C9 as stated: when the best candidate of the postal lookup has no usable
\* coordinates the geocoder goes on to the keyword search.
C9_PostalUnusableFallsThrough ==
  PostalReply("unusable") /\ Len(geo.calls) = 1 => geo.pc = "suggest"

\* C9 as amended: when the best candidate of the postal lookup has no usable
\* coordinates the geocoder fails at once (line 352) and makes no
\* keyword-suggestion call.
C9_PostalUnusableRaises ==
  PostalReply("unusable") =>
    /\ geo.pc = "failed"
    /\ geo.error = ERR_POSTAL_COORD
    /\ Len(geo.calls) = 1

\* The postal lookup of an address with keywords returned candidates, the
\* best has no coordinates, and the call has failed.
C9_Witness ==
  /\ PostalReply("unusable")
  /\ geo.raw_address = ADDR_FULL
  /\ Len(ExpectedSuggests) = 6
  /\ geo.pc = "failed"

====
